---- MODULE Spec2Model ----
(***************************************************************************)
(* Model of archipack_molding.py: the molding path generator               *)
(* (Molding / StraightMolding / MoldingGenerator), the conversion of a     *)
(* sampled curve into parts (archipack_molding.from_spline), and the       *)
(* datablock with its handlers (update, update_parts, auto_update).        *)
(*                                                                         *)
(* Number representation.  Coordinates and lengths are integers (one unit  *)
(* is far larger than the 1e-4 closure tolerance, so "distance < 0.0001"   *)
(* is "distance = 0").  Angles are counted in quarter turns (1 = pi/2), so *)
(* cos and sin are exact and every segment runs along an axis.  A unit     *)
(* vector in one of the eight compass directions is written by its sign    *)
(* pattern (<<1,1>> stands for (1,1)/sqrt 2); <<0,0>> is the zero vector,  *)
(* which is what normalizing the zero vector yields.                       *)
(***************************************************************************)
EXTENDS Integers, Sequences, FiniteSets, TLC

VARIABLES
    parts,      \* the parts collection: records [length, a0, dz]
    segs,       \* MoldingGenerator.segs: the chain of StraightMolding
    x_offset,   \* archipack_molding.x_offset
    pc,         \* where the pipeline stands
    verts,      \* the vertex buffer handed to make_profile
    out,        \* what make_profile computed besides verts
    pts,        \* the sampled points of the spline given to from_spline
    spline,     \* [cyclic, reverse]: spline.use_cyclic_u, user_path_reverse
    mitre,      \* a pair of unit directions and the mitre scale computed for it
    bufs,       \* [faces, matids, uvs]: the other buffers handed to make_profile
    obj         \* the archipack_molding datablock besides parts, and its mesh

vars == <<parts, segs, x_offset, pc, verts, out, pts, spline, mitre, bufs, obj>>

(***************************************************************************)
(* Bounds of the model                                                     *)
(***************************************************************************)
MaxParts == 3
MaxPts == 4
MaxTurnPts == 7

Lengths == {0, 1}
Angles == {-1, 0, 1, 2}
DzValues == {0, 1}
Offsets == {0, 1}
StepLens == {1, 2}

(***************************************************************************)
(* 2D vectors (mathutils.Vector)                                           *)
(***************************************************************************)
Abs(n) == IF n < 0 THEN -n ELSE n

Sgn(n) == IF n > 0 THEN 1 ELSE IF n < 0 THEN -1 ELSE 0

VAdd(a, b) == <<a[1] + b[1], a[2] + b[2]>>

VSub(a, b) == <<a[1] - b[1], a[2] - b[2]>>

VScale(k, a) == <<k * a[1], k * a[2]>>

VDot(a, b) == a[1] * b[1] + a[2] * b[2]

\* Vector.length of a vector that runs along an axis
VLength(v) == Abs(v[1]) + Abs(v[2])

\* the square of Vector.length, exact for every vector
VLengthSq(v) == v[1] * v[1] + v[2] * v[2]

\* Vector.normalized() of a vector in a compass direction; the zero vector
\* is returned unchanged
Normalized(v) == <<Sgn(v[1]), Sgn(v[2])>>

\* cos and sin of q quarter turns
Cos4(q) == CASE q % 4 = 0 -> 1 [] q % 4 = 1 -> 0 [] q % 4 = 2 -> -1 [] OTHER -> 0

Sin4(q) == CASE q % 4 = 0 -> 0 [] q % 4 = 1 -> 1 [] q % 4 = 2 -> 0 [] OTHER -> -1

(***************************************************************************)
(* archipack_2d.Line, as far as the molding uses it                        *)
(***************************************************************************)
Line(p, v) == [p |-> p, v |-> v]

lerp(l, t) == VAdd(l.p, VScale(t, l.v))

\* Line.rotate(da): v turned by da
rotate(l, da) ==
    Line(l.p, <<l.v[1] * Cos4(da) - l.v[2] * Sin4(da),
                l.v[1] * Sin4(da) + l.v[2] * Cos4(da)>>)

\* Line.straight(length, t=1): from the end point, along v, `length` long
straight(l, length) == Line(lerp(l, 1), VScale(length, Normalized(l.v)))

\* the left-hand normal of a direction
LeftNormal(d) == <<-d[2], d[1]>>

\* Line.make_offset(offset, last): the parallel line, translated by offset
\* along the left-hand normal; no trimming against `last`
make_offset(l, offset, last) ==
    Line(VAdd(l.p, VScale(offset, LeftNormal(Normalized(l.v)))), l.v)

\* Line.sized_normal(t, size): the frame at parameter t of the line, its
\* direction the line's own unit direction scaled to size
sized_normal(l, t, size) == Line(lerp(l, t), VScale(size, Normalized(l.v)))

(***************************************************************************)
(* Molding / StraightMolding                                               *)
(***************************************************************************)
NoLine == [set |-> FALSE, p |-> <<0, 0>>, v |-> <<0, 0>>]

\* StraightMolding.__init__(p, v): Molding.__init__ sets dz = 0 and z0 = 0
StraightMolding(p, v) == [p |-> p, v |-> v, dz |-> 0, z0 |-> 0, line |-> NoLine]

\* straight_molding without the turn by a0
straight_molding_noturn(s, a0, length) ==
    LET l == straight(Line(s.p, s.v), length)
    IN  StraightMolding(l.p, l.v)

\* Molding.straight_molding(a0, length)
straight_molding(s, a0, length) ==
    LET l == rotate(straight(Line(s.p, s.v), length), a0)
    IN  StraightMolding(l.p, l.v)

\* set_offset that shifts the line the segment already has
seg_set_offset_again(s, offset, last) ==
    LET l == IF s.line.set
             THEN make_offset(Line(s.line.p, s.line.v), offset, last)
             ELSE make_offset(Line(s.p, s.v), offset, last)
    IN  [s EXCEPT !.line = [set |-> TRUE, p |-> l.p, v |-> l.v]]

\* Molding.set_offset(offset, last): self.line = self.make_offset(offset, last)
seg_set_offset(s, offset, last) ==
    LET l == make_offset(Line(s.p, s.v), offset, last)
    IN  [s EXCEPT !.line = [set |-> TRUE, p |-> l.p, v |-> l.v]]

(***************************************************************************)
(* MoldingGenerator                                                        *)
(***************************************************************************)
\* MoldingGenerator.add_part(part): the chain with the part's segment appended
add_part(ss, part) ==
    IF Len(ss) < 1
    THEN Append(ss, StraightMolding(<<0, 0>>,
                        VScale(part.length, <<Cos4(part.a0), Sin4(part.a0)>>)))
    ELSE Append(ss, straight_molding(ss[Len(ss)], part.a0, part.length))

\* the loop of set_offset, and of the head of make_profile: every segment's
\* line is set to its offset line, `last` being the previous segment's line
RECURSIVE offset_from(_, _, _, _)
offset_from(ss, offset, i, last) ==
    IF i > Len(ss) THEN ss
    ELSE LET s == seg_set_offset(ss[i], offset, last)
         IN  offset_from([ss EXCEPT ![i] = s], offset, i + 1, s.line)

set_offset(ss, offset) == offset_from(ss, offset, 1, NoLine)

(***************************************************************************)
(* MoldingGenerator.make_profile                                           *)
(***************************************************************************)
\* the mitre scale without the cap min(10, .)
MitreScaleSq_nocap(d, D) ==
    LET c == IF d > D THEN D ELSE IF d < -D THEN -D ELSE d
    IN  <<2 * D, D + c>>

\* min(10, 1 / cos(0.5 * acos(min(1, max(-1, c))))) for c = d / D, D > 0,
\* as the square of the scale, a fraction <<numerator, denominator>>:
\* 1 / cos(t/2)^2 = 2 / (1 + cos t).  At c = -1 the float cos(pi/2) is a
\* tiny positive number, the quotient is huge and min() returns 10.
MitreScaleSq(d, D) ==
    LET c == IF d > D THEN D ELSE IF d < -D THEN -D ELSE d
    IN  IF 2 * D > 100 * (D + c) THEN <<100, 1>> ELSE <<2 * D, D + c>>

\* the first section taken at the start of the first segment also when the
\* path is closed
first_section_nowrap(ss, closed_path) ==
    LET f == ss[1]
    IN  [n |-> sized_normal(f.line, 0, 1),
         dz |-> f.dz \div VLength(f.line.v), zl |-> f.z0]

\* the first section: the wrap joint of a closed path, else the start of
\* the first segment; f.dz / f.line.length is evaluated for it
first_section(ss, closed_path) ==
    LET f == ss[1]
        f_last == ss[Len(ss)].line
        n == IF closed_path THEN sized_normal(f_last, 1, 1)
                            ELSE sized_normal(f.line, 0, 1)
    IN  [n |-> n, dz |-> f.dz \div VLength(f.line.v), zl |-> f.z0]

\* the loop over the segments without the skip of the segments of length 0
RECURSIVE end_sections_noskip(_, _, _)
end_sections_noskip(ss, i, acc) ==
    IF i > Len(ss) THEN acc
    ELSE end_sections_noskip(ss, i + 1,
            Append(acc, [n |-> sized_normal(ss[i].line, 1, 1),
                         dz |-> 0, zl |-> ss[i].z0 + ss[i].dz]))

\* the loop over the segments: one section at the end of every segment whose
\* offset line has a length, the others are skipped
RECURSIVE end_sections(_, _, _)
end_sections(ss, i, acc) ==
    IF i > Len(ss) THEN acc
    ELSE LET f == ss[i]
         IN  IF VLength(f.line.v) = 0
             THEN end_sections(ss, i + 1, acc)
             ELSE end_sections(ss, i + 1,
                    Append(acc, [n |-> sized_normal(f.line, 1, 1),
                                 dz |-> f.dz \div VLength(f.line.v),
                                 zl |-> f.z0 + f.dz]))

\* the ring of one section with the profile walked from its last point
ring_reversed(sec, profile, z_offset, dir, scale) ==
    [j \in 1..Len(profile) |->
        [p |-> sec.n.p, scale |-> scale,
         px |-> profile[Len(profile) + 1 - j].x, dir |-> dir,
         z |-> sec.zl + profile[Len(profile) + 1 - j].y + z_offset]]

\* the ring of one section: one vertex per profile point, standing for
\* (x, y) = p + scale * px * dir and z
ring(sec, profile, z_offset, dir, scale) ==
    [j \in 1..Len(profile) |->
        [p |-> sec.n.p, scale |-> scale, px |-> profile[j].x, dir |-> dir,
         z |-> sec.zl + profile[j].y + z_offset]]

\* the loop over the sections, s counted from 0 as in the source; st holds
\* p0, v0, v1 (bound or not yet), the vertices and the path distances so
\* far (each distance by its square)
RECURSIVE sweep(_, _, _, _, _, _)
sweep(sections, profile, z_offset, closed_path, s, st) ==
    IF s >= Len(sections) THEN st
    ELSE
      LET sec == sections[s + 1]
          p1 == sec.n.p
          n_sections == Len(sections) - 1
          uv == IF s > 0 THEN Append(st.uv, VLengthSq(VSub(p1, st.p0)))
                         ELSE st.uv
          bound == s < n_sections \/ st.bound
          v1 == IF s < n_sections THEN Normalized(sections[s + 2].n.v)
                                  ELSE st.v1
          dir == Normalized(VAdd(st.v0, v1))
          scale == MitreScaleSq(VDot(st.v0, v1), 1)
      IN  IF s >= n_sections /\ closed_path
          THEN [st EXCEPT !.uv = uv]
          ELSE IF ~bound
          THEN [st EXCEPT !.uv = uv, !.raised = TRUE]
          ELSE sweep(sections, profile, z_offset, closed_path, s + 1,
                     [st EXCEPT !.uv = uv, !.bound = TRUE, !.p0 = p1,
                                !.v0 = v1, !.v1 = v1,
                                !.verts = st.verts \o
                                    ring(sec, profile, z_offset, dir, scale)])

\* closed_path = (f.line.p - (f_last.p + f_last.v)).length < 0.0001
closed_path_of(ss) ==
    LET f == ss[1]
        f_last == ss[Len(ss)].line
    IN  VLengthSq(VSub(f.line.p, VAdd(f_last.p, f_last.v))) = 0

\* the sections list of make_profile
sections_of(ss) ==
    end_sections(ss, 1, <<first_section(ss, closed_path_of(ss))>>)

\* make_profile from `sections = []` on, the vertices collected in a list
\* of their own instead of the caller's
profile_result_fresh(ss, profile, z_offset, vs) ==
    LET closed_path == closed_path_of(ss)
        sections == sections_of(ss)
        st == sweep(sections, profile, z_offset, closed_path, 0,
                    [p0 |-> sections[1].n.p,
                     v0 |-> Normalized(sections[1].n.v),
                     v1 |-> <<0, 0>>, bound |-> FALSE, raised |-> FALSE,
                     verts |-> <<>>, uv |-> <<>>])
    IN  [raised |-> st.raised,
         closed_path |-> closed_path,
         n_sections |-> Len(sections),
         offset |-> 0,
         user_path_verts |-> IF closed_path THEN Len(sections) - 1
                                            ELSE Len(sections),
         user_path_uv_v |-> st.uv,
         verts |-> st.verts]

\* make_profile from `sections = []` on, for a chain with its lines set:
\* the vertices appended to vs and what is handed to the face builder
profile_result(ss, profile, z_offset, vs) ==
    LET closed_path == closed_path_of(ss)
        sections == sections_of(ss)
        st == sweep(sections, profile, z_offset, closed_path, 0,
                    [p0 |-> sections[1].n.p,
                     v0 |-> Normalized(sections[1].n.v),
                     v1 |-> <<0, 0>>, bound |-> FALSE, raised |-> FALSE,
                     verts |-> vs, uv |-> <<>>])
    IN  [raised |-> st.raised,
         closed_path |-> closed_path,
         n_sections |-> Len(sections),
         offset |-> Len(vs),
         user_path_verts |-> IF closed_path THEN Len(sections) - 1
                                            ELSE Len(sections),
         user_path_uv_v |-> st.uv,
         verts |-> st.verts]

\* archipack_molding.update: the SQUARE profile for profil_x, profil_y
profil_x == 1

profil_y == 1

SquareProfile(x, y) ==
    <<[x |-> 0, y |-> y], [x |-> 0, y |-> 0], [x |-> x, y |-> 0], [x |-> x, y |-> y]>>

Profile == SquareProfile(profil_x, profil_y)

\* g.make_profile(molding, 0, self.x_offset, 0, 0, True, ...): z_offset
ZOffset == 0

PartSpace == [length : Lengths, a0 : Angles, dz : DzValues]

NoOut ==
    [ran |-> FALSE, raised |-> FALSE, closed_path |-> FALSE, n_sections |-> 0,
     offset |-> 0, user_path_verts |-> 0, user_path_uv_v |-> <<>>]

(***************************************************************************)
(* panel.Lofter for path_type = 'USER_DEFINED': the faces, material ids    *)
(* and uvs of the rings between successive sections                        *)
(***************************************************************************)
\* the rings of faces along the path: one per pair of successive sections,
\* one more that joins the last section to the first when the path is closed
n_path_faces(closed_path, user_path_verts) ==
    IF closed_path THEN user_path_verts
    ELSE IF user_path_verts > 0 THEN user_path_verts - 1 ELSE 0

\* the faces of one ring: one per pair of successive profile points, one more
\* from the last point to the first when the shape is closed
n_ring_faces(n_pts, closed_shape) ==
    IF closed_shape THEN n_pts ELSE IF n_pts > 0 THEN n_pts - 1 ELSE 0

\* Lofter.faces(1, offset = offset, path_type = 'USER_DEFINED'): face j of
\* ring i joins the points j, j + 1 of section i to those of the next
\* section; the vertex indices count from 0 and start at offset
lofter_faces(n_pts, closed_shape, closed_path, user_path_verts, offset) ==
    LET nr == n_ring_faces(n_pts, closed_shape)
        np == n_path_faces(closed_path, user_path_verts)
    IN  [f \in 1..(np * nr) |->
            LET i == (f - 1) \div nr
                j == (f - 1) % nr
                j1 == (j + 1) % n_pts
                k0 == offset + i * n_pts
                k1 == IF closed_path /\ i = np - 1 THEN offset
                                                   ELSE k0 + n_pts
            IN  <<k0 + j, k0 + j1, k1 + j1, k1 + j>>]

\* Lofter.mat(1, idmat, idmat, path_type = 'USER_DEFINED'): idmat per face
lofter_mat(n_pts, closed_shape, closed_path, user_path_verts, idmat) ==
    [f \in 1..(n_path_faces(closed_path, user_path_verts)
                * n_ring_faces(n_pts, closed_shape)) |-> idmat]

\* Lofter.uv(1, ..., path_type = 'USER_DEFINED'): per face its ring, its
\* edge of the profile and the path distance the ring spans (by its square)
lofter_uv(n_pts, closed_shape, closed_path, user_path_verts, user_path_uv_v) ==
    LET nr == n_ring_faces(n_pts, closed_shape)
        np == n_path_faces(closed_path, user_path_verts)
    IN  [f \in 1..(np * nr) |->
            [ring |-> (f - 1) \div nr, edge |-> (f - 1) % nr,
             du |-> user_path_uv_v[((f - 1) \div nr) + 1]]]

\* g.make_profile(molding, 0, self.x_offset, 0, 0, True, ...): idmat, closed
IdMat == 0

ClosedShape == TRUE

\* the buffers faces, matids, uvs when empty
NoBufs == [faces |-> <<>>, matids |-> <<>>, uvs |-> <<>>]

\* make_profile lines 199-214: what the Lofter adds to faces, matids, uvs
lofted(b, profile, idmat, closed, r) ==
    [faces |-> b.faces \o lofter_faces(Len(profile), closed, r.closed_path,
                                       r.user_path_verts, r.offset),
     matids |-> b.matids \o lofter_mat(Len(profile), closed, r.closed_path,
                                       r.user_path_verts, idmat),
     uvs |-> b.uvs \o lofter_uv(Len(profile), closed, r.closed_path,
                                r.user_path_verts, r.user_path_uv_v)]

(***************************************************************************)
(* The archipack_molding datablock: obj holds n_parts, auto_update, whether*)
(* the object is in the selection, the manipulators of the object and of   *)
(* its parts (by their number), the host mesh as buildmesh wrote it last   *)
(* with the parameters it was generated from, the number of buildmesh      *)
(* calls of the update in progress, and the handler that ran last          *)
(***************************************************************************)
\* archipack_molding.n_parts: default = 1
DefaultNParts == 1

\* no mesh written yet, no generation yet
NoMesh == <<>>

NoGen == <<>>

\* the datablock as created: no part, no manipulator, auto_update on
NewObject ==
    [n_parts |-> DefaultNParts, auto_update |-> TRUE, selected |-> TRUE,
     manipulators |-> 0, pmanips |-> <<>>, mesh |-> NoMesh, gen |-> NoGen,
     writes |-> 0, op |-> "init"]

Init ==
    /\ parts = <<>>
    /\ segs = <<>>
    /\ x_offset \in Offsets
    /\ pc = "build"
    /\ verts = <<>>
    /\ out = NoOut
    /\ pts = <<>>
    /\ spline = [cyclic |-> FALSE, reverse |-> FALSE]
    /\ mitre = <<>>
    /\ bufs = NoBufs
    /\ obj = NewObject

\* g.add_part(part) for one more part of the collection
AddPart ==
    /\ pc = "build"
    /\ Len(parts) < MaxParts
    /\ \E part \in PartSpace :
          /\ parts' = Append(parts, part)
          /\ segs' = add_part(segs, part)
    /\ UNCHANGED <<x_offset, pc, verts, out, pts, spline, mitre, bufs, obj>>

\* g.set_offset(self.x_offset)
SetOffset ==
    /\ pc = "build"
    /\ segs' = set_offset(segs, x_offset)
    /\ pc' = "offset"
    /\ UNCHANGED <<parts, x_offset, verts, out, pts, spline, mitre, bufs, obj>>

\* g.make_profile(molding, 0, self.x_offset, 0, 0, True, verts, ...):
\* the lines are set again; no segment: return; the division for the first
\* section raises ZeroDivisionError when the first line has no length
MakeProfile ==
    /\ pc = "offset"
    /\ segs' = set_offset(segs, x_offset)
    /\ IF Len(segs) - 1 < 0
       THEN /\ pc' = "done"
            /\ out' = [NoOut EXCEPT !.ran = TRUE, !.offset = Len(verts)]
            /\ verts' = verts
            /\ bufs' = bufs
       ELSE IF VLength(segs'[1].line.v) = 0
       THEN /\ pc' = "raised"
            /\ out' = [NoOut EXCEPT !.ran = TRUE, !.raised = TRUE,
                                    !.closed_path = closed_path_of(segs'),
                                    !.offset = Len(verts)]
            /\ verts' = verts
            /\ bufs' = bufs
       ELSE \E r \in {profile_result(segs', Profile, ZOffset, verts)} :
                /\ pc' = IF r.raised THEN "raised" ELSE "done"
                /\ out' = [ran |-> TRUE, raised |-> r.raised,
                           closed_path |-> r.closed_path,
                           n_sections |-> r.n_sections,
                           offset |-> r.offset,
                           user_path_verts |-> r.user_path_verts,
                           user_path_uv_v |-> r.user_path_uv_v]
                /\ verts' = r.verts
                /\ bufs' = IF out'.raised THEN bufs
                           ELSE lofted(bufs, Profile, IdMat, ClosedShape, out')
    /\ UNCHANGED <<parts, x_offset, pts, spline, mitre, obj>>

Next == AddPart \/ SetOffset \/ MakeProfile

Spec == Init /\ [][Next]_vars

(***************************************************************************)
(* archipack_molding: the parts collection and from_spline                 *)
(***************************************************************************)
\* archipack_molding_part: the defaults of length, a0, dz
DefaultLength == 2

DefaultPart == [length |-> DefaultLength, a0 |-> 0, dz |-> 0]

\* archipack_molding_part.a0: min = -2 * pi, max = 2 * pi, in quarter turns
A0Min == -4

A0Max == 4

\* archipack_molding.n_parts: min = 1
NPartsMin == 1

\* a value assigned to a property with a hard range is clamped to the range
Clamp(x, lo, hi) == IF x < lo THEN lo ELSE IF x > hi THEN hi ELSE x

\* update_parts with the surplus parts removed from the front
update_parts_front(ps, n) ==
    IF Len(ps) >= n THEN SubSeq(ps, Len(ps) - n + 1, Len(ps))
    ELSE ps \o [i \in 1..(n - Len(ps)) |-> DefaultPart]

\* update_parts: parts are removed from the end, or default parts are added,
\* until the collection holds n parts
update_parts(ps, n) ==
    IF Len(ps) >= n THEN SubSeq(ps, 1, n)
    ELSE ps \o [i \in 1..(n - Len(ps)) |-> DefaultPart]

\* atan2(y, x) in quarter turns, for a vector along an axis; atan2(0, 0) = 0
Atan2(y, x) ==
    IF y = 0 THEN (IF x < 0 THEN 2 ELSE 0) ELSE IF y > 0 THEN 1 ELSE -1

Reverse(q) == [i \in 1..Len(q) |-> q[Len(q) + 1 - i]]

\* the pts list of from_spline for a POLY spline: the points, the first one
\* again when the spline is cyclic
spline_pts(points, cyclic) ==
    IF cyclic THEN Append(points, points[1]) ELSE points

\* the loop of from_spline without `a0 += da`: every angle is taken from
\* the x axis
RECURSIVE spline_loop_noacc(_, _, _, _, _)
spline_loop_noacc(ps, rest, i, p0, a0acc) ==
    IF i > Len(rest) THEN ps
    ELSE
      LET p1 == rest[i]
          dp == <<p1[1] - p0[1], p1[2] - p0[2], p1[3] - p0[3]>>
          part == [length |-> VLength(<<dp[1], dp[2]>>),
                   dz |-> dp[3],
                   a0 |-> Atan2(dp[2], dp[1])]
      IN  spline_loop_noacc([ps EXCEPT ![i] = part], rest, i + 1, p1, 0)

\* the loop of from_spline over the points after p0: part i gets its length,
\* dz and a0; a0acc is the local a0, the sum of the angles given so far
RECURSIVE spline_loop(_, _, _, _, _)
spline_loop(ps, rest, i, p0, a0acc) ==
    IF i > Len(rest) THEN ps
    ELSE
      LET p1 == rest[i]
          dp == <<p1[1] - p0[1], p1[2] - p0[2], p1[3] - p0[3]>>
          da0 == Atan2(dp[2], dp[1]) - a0acc
          da1 == IF da0 > 2 THEN da0 - 4 ELSE da0
          da == IF da1 < -2 THEN da1 + 4 ELSE da1
          part == [length |-> VLength(<<dp[1], dp[2]>>),
                   dz |-> dp[3],
                   a0 |-> Clamp(da, A0Min, A0Max)]
      IN  spline_loop([ps EXCEPT ![i] = part], rest, i + 1, p1, a0acc + da)

\* from_spline from `self.n_parts = len(pts) - 1` on: the parts afterwards
from_spline(ps, points, reverse) ==
    LET n_parts == IF Len(points) - 1 < NPartsMin THEN NPartsMin
                                                  ELSE Len(points) - 1
        resized == update_parts(ps, n_parts)
        q == IF reverse THEN Reverse(points) ELSE points
    IN  IF Len(points) < 1 THEN resized
        ELSE spline_loop(resized, Tail(q), 1, q[1], 0)

\* ArchipackObject.find_in_selection(context, auto_update): no object when
\* auto_update is False, else the object when it is in the selection
NoObject == "None"

find_in_selection(ob, auto_update) ==
    IF ~auto_update THEN NoObject
    ELSE IF ob.selected THEN "o" ELSE NoObject

\* setup_manipulators: two manipulators for the object when it has none,
\* three for each of the first n_parts parts that has none
setup_manipulators(ob) ==
    [ob EXCEPT
        !.manipulators = IF @ = 0 THEN 2 ELSE @,
        !.pmanips = [i \in 1..Len(@) |->
                        IF i <= ob.n_parts /\ @[i] = 0 THEN 3 ELSE @[i]]]

\* update_parts on the manipulators of the parts: they go with the parts
\* removed from the end, a part added has none; then setup_manipulators
update_parts_obj(ob) ==
    setup_manipulators(
        [ob EXCEPT !.pmanips =
            IF Len(@) >= ob.n_parts THEN SubSeq(@, 1, ob.n_parts)
            ELSE @ \o [i \in 1..(ob.n_parts - Len(@)) |-> 0]])

\* from_spline from `auto_update = self.auto_update` on: auto_update is
\* saved and set to False, n_parts is set and update_parts called; with no
\* point the function returns there; else the flag is set back at the end
from_spline_obj(ob, points) ==
    LET n_parts == IF Len(points) - 1 < NPartsMin THEN NPartsMin
                                                  ELSE Len(points) - 1
        resized == update_parts_obj([ob EXCEPT !.auto_update = FALSE,
                                               !.n_parts = n_parts])
    IN  IF Len(points) < 1 THEN resized
        ELSE [resized EXCEPT !.auto_update = ob.auto_update]

\* the pts list of from_spline for a BEZIER spline whose segments are
\* straight: interpolate_bezier appends the first point of every segment
bezier_pts(points, cyclic) ==
    LET inner == [i \in 1..(Len(points) - 1) |-> points[i]]
        q == IF cyclic THEN Append(inner, points[Len(points)]) ELSE inner
    IN  IF cyclic THEN Append(q, q[1]) ELSE Append(q, points[Len(points)])

\* the pts list of from_spline by the type of the spline
pts_of(sp) ==
    IF sp.type = "POLY" THEN spline_pts(sp.points, sp.cyclic)
    ELSE IF sp.type = "BEZIER" THEN bezier_pts(sp.points, sp.cyclic)
    ELSE <<>>

\* archipack_molding.update without `if o is None: return`
update_pc_unguarded(ob) == "update"

\* archipack_molding.update up to `if o is None: return`: where the handler
\* goes on
update_pc(ob) ==
    IF find_in_selection(ob, ob.auto_update) = NoObject THEN "idle"
    ELSE "update"

\* get_generator: add_part for every part, then set_offset(self.x_offset)
RECURSIVE add_parts(_, _, _)
add_parts(ss, ps, i) ==
    IF i > Len(ps) THEN ss ELSE add_parts(add_part(ss, ps[i]), ps, i + 1)

get_generator(ps, offset) == set_offset(add_parts(<<>>, ps, 1), offset)

\* the sampled points: a walk of steps along the axes from a start point
StartPoints == {<<0, 0, 0>>, <<1, 2, 1>>}

Steps ==
    {<<l * d[1], l * d[2], z>> :
        l \in StepLens, d \in {<<1, 0>>, <<0, 1>>, <<-1, 0>>, <<0, -1>>},
        z \in DzValues}

UnitSteps == {<<1, 0, 0>>, <<0, 1, 0>>, <<-1, 0, 0>>, <<0, -1, 0>>}

\* every step of the walk so far is a unit step in the plane
UnitWalk(q) ==
    \A i \in 1..(Len(q) - 1) :
        <<q[i + 1][1] - q[i][1], q[i + 1][2] - q[i][2], q[i + 1][3] - q[i][3]>>
            \in UnitSteps

\* the step from the last point back to the first runs along an axis
ClosingStepOk(q) ==
    /\ Len(q) >= 2
    /\ (q[1][1] = q[Len(q)][1]) # (q[1][2] = q[Len(q)][2])

InitSpline ==
    /\ parts = <<DefaultPart>>
    /\ segs = <<>>
    /\ x_offset = 0
    /\ pc = "spline"
    /\ verts = <<>>
    /\ out = NoOut
    /\ pts \in {<<p>> : p \in StartPoints}
    /\ spline = [cyclic |-> FALSE, reverse |-> FALSE]
    /\ mitre = <<>>
    /\ bufs = NoBufs
    /\ obj = update_parts_obj(NewObject)

\* one more point of the spline: any step while the spline is short, unit
\* steps in the plane for the long walks
AddPoint ==
    /\ pc = "spline"
    /\ \E st \in Steps \cup UnitSteps :
          /\ \/ Len(pts) < MaxPts /\ st \in Steps
             \/ Len(pts) < MaxTurnPts /\ st \in UnitSteps /\ UnitWalk(pts)
          /\ pts' = Append(pts, <<pts[Len(pts)][1] + st[1],
                                  pts[Len(pts)][2] + st[2],
                                  pts[Len(pts)][3] + st[3]>>)
    /\ UNCHANGED <<parts, segs, x_offset, pc, verts, out, spline, mitre, bufs, obj>>

\* from_spline(context, wM, resolution, spline) for a POLY spline whose
\* points are pts, with use_cyclic_u and user_path_reverse chosen
FromSpline ==
    /\ pc = "spline"
    /\ \E cyclic \in BOOLEAN, reverse \in BOOLEAN :
          /\ cyclic => ClosingStepOk(pts)
          /\ spline' = [cyclic |-> cyclic, reverse |-> reverse]
          /\ parts' = from_spline(parts, spline_pts(pts, cyclic), reverse)
          /\ obj' = [from_spline_obj(obj, spline_pts(pts, cyclic))
                        EXCEPT !.op = "from_spline"]
    /\ pc' = "converted"
    /\ UNCHANGED <<segs, x_offset, verts, out, pts, mitre, bufs>>

\* get_generator() on the converted parts
GetGenerator ==
    /\ pc = "converted"
    /\ segs' = get_generator(parts, x_offset)
    /\ pc' = "offset"
    /\ UNCHANGED <<parts, x_offset, verts, out, pts, spline, mitre, bufs, obj>>

NextSpline == AddPoint \/ FromSpline \/ GetGenerator

SpecSpline == InitSpline /\ [][NextSpline]_vars

(***************************************************************************)
(* The mitre scale on pairs of unit directions: the vectors of length      *)
(* UnitLen with integer coordinates stand for the unit vectors v / UnitLen *)
(***************************************************************************)
UnitLen == 5

UnitVecs ==
    {v \in (-UnitLen..UnitLen) \X (-UnitLen..UnitLen) :
        VLengthSq(v) = UnitLen * UnitLen}

InitMitre ==
    /\ parts = <<>>
    /\ segs = <<>>
    /\ x_offset = 0
    /\ pc = "mitre"
    /\ verts = <<>>
    /\ out = NoOut
    /\ pts = <<>>
    /\ spline = [cyclic |-> FALSE, reverse |-> FALSE]
    /\ mitre \in [v0 : UnitVecs, v1 : UnitVecs, scale : {<<0, 1>>}, done : {FALSE}]
    /\ bufs = NoBufs
    /\ obj = NewObject

\* scale = min(10, 1 / cos(0.5 * acos(min(1, max(-1, v0 * v1)))))
ComputeMitre ==
    /\ pc = "mitre"
    /\ ~mitre.done
    /\ mitre' = [mitre EXCEPT
                    !.scale = MitreScaleSq(VDot(mitre.v0, mitre.v1),
                                           UnitLen * UnitLen),
                    !.done = TRUE]
    /\ UNCHANGED <<parts, segs, x_offset, pc, verts, out, pts, spline, bufs, obj>>

NextMitre == ComputeMitre

SpecMitre == InitMitre /\ [][NextMitre]_vars

(***************************************************************************)
(* make_profile on longer paths, the parts all on one level                *)
(***************************************************************************)
MaxFlatParts == 4

FlatPartSpace == [length : Lengths, a0 : Angles, dz : {0}]

InitPath ==
    /\ parts = <<>>
    /\ segs = <<>>
    /\ x_offset \in Offsets
    /\ pc = "build"
    /\ verts = <<>>
    /\ out = NoOut
    /\ pts = <<>>
    /\ spline = [cyclic |-> FALSE, reverse |-> FALSE]
    /\ mitre = <<>>
    /\ bufs = NoBufs
    /\ obj = NewObject

\* g.add_part(part) for one more part
AddFlatPart ==
    /\ pc = "build"
    /\ Len(parts) < MaxFlatParts
    /\ \E part \in FlatPartSpace :
          /\ parts' = Append(parts, part)
          /\ segs' = add_part(segs, part)
    /\ UNCHANGED <<x_offset, pc, verts, out, pts, spline, mitre, bufs, obj>>

NextPath == AddFlatPart \/ SetOffset \/ MakeProfile

SpecPath == InitPath /\ [][NextPath]_vars

(***************************************************************************)
(* make_profile on buffers that hold the entries of an earlier call        *)
(***************************************************************************)
\* buffers as an earlier call left them: one quad with another material id
OldVerts ==
    [j \in 1..4 |-> [p |-> <<0, 0>>, scale |-> <<1, 1>>, px |-> j, dir |-> <<0, 0>>,
                     z |-> j]]

OldBufs ==
    [faces |-> << <<0, 1, 2, 3>> >>, matids |-> <<1>>,
     uvs |-> <<[ring |-> 0, edge |-> 0, du |-> 1]>>]

InitAppend ==
    /\ parts = <<>>
    /\ segs = <<>>
    /\ x_offset \in Offsets
    /\ pc = "build"
    /\ verts = OldVerts
    /\ out = NoOut
    /\ pts = <<>>
    /\ spline = [cyclic |-> FALSE, reverse |-> FALSE]
    /\ mitre = <<>>
    /\ bufs = OldBufs
    /\ obj = NewObject

SpecAppend == InitAppend /\ [][Next]_vars

(***************************************************************************)
(* The datablock and its handlers: a property that is set calls update     *)
(* (update_manipulators for n_parts and auto_update, update of the part    *)
(* for a0), update_path calls from_spline.  update runs in steps: up to    *)
(* `if o is None: return` with the handler that calls it, then             *)
(* UpdateParts, MakeProfile and BuildMesh; no handler starts in between.   *)
(***************************************************************************)
ObjAngles == {0, 1}

SplineTypes == {"POLY", "BEZIER", "NURBS"}

\* the points of the splines sampled: a straight step, and a step with a
\* left turn after it
SplinePoints ==
    {<< <<0, 0, 0>>, <<2, 0, 0>> >>,
     << <<0, 0, 0>>, <<2, 0, 0>>, <<2, 2, 0>> >>}

SplineSamples == [type : SplineTypes, points : SplinePoints, cyclic : {FALSE}]

InitObject ==
    /\ parts = <<>>
    /\ segs = <<>>
    /\ x_offset \in Offsets
    /\ pc = "idle"
    /\ verts = <<>>
    /\ out = NoOut
    /\ pts = <<>>
    /\ spline = [cyclic |-> FALSE, reverse |-> FALSE]
    /\ mitre = <<>>
    /\ bufs = NoBufs
    /\ obj = NewObject

\* the call of update that follows a change by the handler named op: it
\* returns at once, or goes on with a mesh still to write
CallUpdate(ob, op) ==
    /\ pc' = update_pc(ob)
    /\ obj' = [ob EXCEPT !.op = op,
                         !.writes = IF update_pc(ob) = "update" THEN 0 ELSE @]

\* auto_update = b: update_manipulators
SetAutoUpdate ==
    /\ pc = "idle"
    /\ \E b \in BOOLEAN :
          CallUpdate([obj EXCEPT !.auto_update = b], "auto_update")
    /\ UNCHANGED <<parts, segs, x_offset, verts, out, pts, spline, mitre, bufs>>

\* n_parts = n: update_manipulators
SetNParts ==
    /\ pc = "idle"
    /\ \E n \in NPartsMin..MaxParts :
          CallUpdate([obj EXCEPT !.n_parts = n], "n_parts")
    /\ UNCHANGED <<parts, segs, x_offset, verts, out, pts, spline, mitre, bufs>>

\* parts[i].a0 = a: the update of the part, which calls the update of the
\* datablock found in the selection
SetA0 ==
    /\ pc = "idle"
    /\ \E i \in 1..Len(parts), a \in ObjAngles :
          parts' = [parts EXCEPT ![i].a0 = Clamp(a, A0Min, A0Max)]
    /\ IF obj.selected
       THEN CallUpdate(obj, "a0")
       ELSE pc' = pc /\ obj' = [obj EXCEPT !.op = "a0"]
    /\ UNCHANGED <<segs, x_offset, verts, out, pts, spline, mitre, bufs>>

\* the object enters or leaves the selection
Select ==
    /\ pc = "idle"
    /\ obj' = [obj EXCEPT !.selected = ~@, !.op = "select"]
    /\ UNCHANGED <<parts, segs, x_offset, pc, verts, out, pts, spline, mitre, bufs>>

\* update_path: from_spline(context, wM, resolution, spline); setting
\* auto_update, n_parts, length and a0 calls update, which returns at once
\* while auto_update is False; the last one follows `self.auto_update =
\* auto_update`
UpdatePath ==
    /\ pc = "idle"
    /\ \E sp \in SplineSamples :
          IF find_in_selection(obj, TRUE) = NoObject
          THEN /\ obj' = [obj EXCEPT !.op = "from_spline"]
               /\ UNCHANGED <<parts, pc>>
          ELSE /\ parts' = from_spline(parts, pts_of(sp), spline.reverse)
               /\ IF Len(pts_of(sp)) < 1
                  THEN /\ obj' = [from_spline_obj(obj, pts_of(sp))
                                    EXCEPT !.op = "from_spline"]
                       /\ pc' = pc
                  ELSE CallUpdate(from_spline_obj(obj, pts_of(sp)),
                                  "from_spline")
    /\ UNCHANGED <<segs, x_offset, verts, out, pts, spline, mitre, bufs>>

\* update from update_parts() to get_generator(): the parts and their
\* manipulators, empty buffers, the generator with its offset lines
UpdateParts ==
    /\ pc = "update"
    /\ parts' = update_parts(parts, obj.n_parts)
    /\ obj' = update_parts_obj(obj)
    /\ verts' = <<>>
    /\ bufs' = NoBufs
    /\ out' = NoOut
    /\ segs' = get_generator(parts', x_offset)
    /\ pc' = "offset"
    /\ UNCHANGED <<x_offset, pts, spline, mitre>>

\* bmed.buildmesh(context, o, verts, faces, matids = matids, uvs = uvs):
\* the mesh of the object is replaced; update returns
BuildMesh ==
    /\ pc = "done"
    /\ obj' = [obj EXCEPT
                  !.mesh = [verts |-> verts, faces |-> bufs.faces,
                            matids |-> bufs.matids, uvs |-> bufs.uvs],
                  !.gen = [parts |-> parts, x_offset |-> x_offset],
                  !.writes = @ + 1]
    /\ pc' = "idle"
    /\ segs' = <<>>
    /\ verts' = <<>>
    /\ bufs' = NoBufs
    /\ out' = NoOut
    /\ UNCHANGED <<parts, x_offset, pts, spline, mitre>>

NextObject ==
    \/ SetAutoUpdate
    \/ SetNParts
    \/ SetA0
    \/ Select
    \/ UpdatePath
    \/ UpdateParts
    \/ MakeProfile
    \/ BuildMesh

SpecObject == InitObject /\ [][NextObject]_vars

(***************************************************************************)
(* What the claims speak of, stated apart from make_profile's loops        *)
(***************************************************************************)
K == Len(Profile)

\* the indices of the segments whose offset line has a length, in path order
NzIdx(ss) == SelectSeq([i \in 1..Len(ss) |-> i],
                       LAMBDA i : VLengthSq(ss[i].line.v) # 0)

N_nonzero(ss) == Len(NzIdx(ss))

\* the end point of the chain returns to its start
ChainClosed(ss) == ss[1].p = VAdd(ss[Len(ss)].p, ss[Len(ss)].v)

\* the number of section frames the claims expect for a chain
ExpectedFrames(ss) ==
    IF closed_path_of(ss) THEN N_nonzero(ss) ELSE N_nonzero(ss) + 1

\* the vertices make_profile appended
Appended == SubSeq(verts, out.offset + 1, Len(verts))

\* the unit direction of segment i
UnitDir(ss, i) == Normalized(ss[i].line.v)

\* the position of section frame s (from 0): the wrap joint or the start of
\* the path, then the end of the s-th segment that has a length
FramePos(ss, s) ==
    IF s = 0
    THEN IF closed_path_of(ss)
         THEN VAdd(ss[Len(ss)].line.p, ss[Len(ss)].line.v)
         ELSE ss[1].line.p
    ELSE LET i == NzIdx(ss)[s] IN VAdd(ss[i].line.p, ss[i].line.v)

\* the direction the claims expect at frame s (from 0) of m frames
FrameDir(ss, s, m) ==
    LET nz == NzIdx(ss)
    IN  IF s = 0
        THEN IF closed_path_of(ss)
             THEN Normalized(VAdd(UnitDir(ss, Len(ss)), UnitDir(ss, 1)))
             ELSE UnitDir(ss, 1)
        ELSE IF s = m - 1 /\ ~closed_path_of(ss)
        THEN UnitDir(ss, nz[s])
        ELSE Normalized(VAdd(UnitDir(ss, nz[s]), UnitDir(ss, nz[s + 1])))

RECURSIVE SumDz(_, _)
SumDz(ps, i) == IF i = 0 THEN 0 ELSE ps[i].dz + SumDz(ps, i - 1)

RECURSIVE SumA0(_, _)
SumA0(ps, i) == IF i = 0 THEN 0 ELSE ps[i].a0 + SumA0(ps, i - 1)

RECURSIVE SumV(_, _)
SumV(ss, i) == IF i = 0 THEN <<0, 0>> ELSE VAdd(ss[i].v, SumV(ss, i - 1))

\* C1: for every non-empty chain make_profile emits one ring of K vertices
\* per path vertex and hands that count to the face builder: N_nonzero + 1
\* for an open path, N_nonzero for a closed one.
C1_FramesPerPathVertex ==
    (out.ran /\ Len(segs) >= 1) =>
        /\ Len(Appended) = K * ExpectedFrames(segs)
        /\ out.user_path_verts = ExpectedFrames(segs)

\* C1, its case: a closed path with a segment of length 0 in it
C1_Witness ==
    /\ pc = "done"
    /\ out.closed_path
    /\ N_nonzero(segs) < Len(segs)
    /\ out.user_path_verts = N_nonzero(segs)
    /\ out.user_path_verts >= 2

\* C2: the path is taken as closed exactly when the chain's end point is its
\* start point, whatever the lateral offset is.
C2_ClosedWhateverOffset ==
    (out.ran /\ Len(segs) >= 1) => (out.closed_path <=> ChainClosed(segs))

\* C3: a profile of K points swept over m frames appends exactly K * m
\* vertices, section-major then profile-point-minor: the vertex at
\* offset + s * K + j lies at frame s and carries profile point j.
C3_VertexCountAndOrder ==
    (pc = "done" /\ Len(segs) >= 1) =>
        LET m == out.user_path_verts
        IN  /\ Len(verts) = out.offset + K * m
            /\ \A s \in 0..(m - 1) : \A j \in 1..K :
                  LET v == verts[out.offset + s * K + j]
                  IN  /\ v.p = FramePos(segs, s)
                      /\ v.px = Profile[j].x
                      /\ v.z - Profile[j].y = verts[out.offset + s * K + 1].z
                                                  - Profile[1].y

\* C3, its case: a straight open segment under the 4-point square profile
\* gives 2 sections and 8 vertices
C3_Witness ==
    /\ pc = "done"
    /\ Len(parts) = 1 /\ parts[1].length > 0
    /\ out.user_path_verts = 2
    /\ Len(verts) = 8

\* C4: the elevation of a frame is the sum of the dz of the parts before it,
\* and every vertex of the frame has z = elevation + profile y + z_offset.
C4_ElevationAccumulates ==
    (pc = "done" /\ Len(segs) >= 1) =>
        \A s \in 0..(out.user_path_verts - 1) : \A j \in 1..K :
            verts[out.offset + s * K + j].z =
                (IF s = 0 THEN 0 ELSE SumDz(parts, NzIdx(segs)[s]))
                    + Profile[j].y + ZOffset

\* C5: no exception leaves add_part, set_offset, make_profile, also with a
\* segment of length 0 at the first position.
C5_NoException == pc # "raised"

\* C6: the direction that places the profile at a frame is the bisector of
\* the incoming and outgoing unit directions at an interior joint, the first
\* (last) segment's own direction with scale 1 at the ends of an open path,
\* and the bisector of the last and first directions at the first frame of a
\* closed path.
C6_FrameDirections ==
    (pc = "done" /\ Len(segs) >= 1) =>
        LET m == out.user_path_verts
        IN  \A s \in 0..(m - 1) : \A j \in 1..K :
               LET v == verts[out.offset + s * K + j]
               IN  /\ v.dir = FrameDir(segs, s, m)
                   /\ (~out.closed_path /\ s \in {0, m - 1})
                          => v.scale[1] = v.scale[2]

\* C6, its case: a closed path whose last and first directions differ, so
\* the first frame is the bisector at the wrap joint
C6_Witness ==
    /\ pc = "done"
    /\ out.closed_path
    /\ out.user_path_verts >= 2
    /\ UnitDir(segs, Len(segs)) # UnitDir(segs, 1)
    /\ UnitDir(segs, 1) # <<0, 0>>

C7_MitreScaleRange ==
    (pc = "mitre" /\ mitre.done) =>
        /\ mitre.scale[2] > 0
        /\ mitre.scale[1] >= mitre.scale[2]
        /\ mitre.scale[1] <= 100 * mitre.scale[2]
        /\ (mitre.scale[1] = mitre.scale[2]) <=> (mitre.v0 = mitre.v1)

\* C7, its case: a full reversal, where the scale is capped at 10
C7_Witness ==
    /\ pc = "mitre" /\ mitre.done
    /\ mitre.v1 = VScale(-1, mitre.v0)
    /\ mitre.scale = <<100, 1>>

\* the points from_spline converts: pts, closed when cyclic, reversed when
\* user_path_reverse
EffPts ==
    LET q == spline_pts(pts, spline.cyclic)
    IN  IF spline.reverse THEN Reverse(q) ELSE q

Planar(p) == <<p[1], p[2]>>

\* the heading of step i of the point list E
Heading(E, i) == Atan2(E[i + 1][2] - E[i][2], E[i + 1][1] - E[i][1])

C10_AngleNormalized ==
    (pc = "converted" /\ Len(EffPts) >= 2) =>
        \A i \in 1..Len(parts) : parts[i].a0 >= -2 /\ parts[i].a0 <= 2

(***************************************************************************)
(* C14                                                                     *)
(***************************************************************************)
\* the squared distance between the positions of the frames s - 1 and s,
\* the frame after the last one of a closed path being frame 0
FrameStepSq(ss, s, m) ==
    VLengthSq(VSub(FramePos(ss, IF s = m THEN 0 ELSE s), FramePos(ss, s - 1)))

\* C14: the path distances handed to the face builder are, in path order,
\* the distances between the positions of successive section frames: m - 1
\* of them for an open path of m frames, m for a closed path of m frames,
\* the last one the distance back to the wrap joint
C14_PathDistances ==
    (pc = "done" /\ Len(segs) > 0) =>
        LET m == ExpectedFrames(segs)
        IN  /\ Len(out.user_path_uv_v) = IF out.closed_path THEN m ELSE m - 1
            /\ \A s \in 1..Len(out.user_path_uv_v) :
                  out.user_path_uv_v[s] = FrameStepSq(segs, s, m)

(***************************************************************************)
(* C12                                                                     *)
(***************************************************************************)
IsPrefix(a, b) == Len(a) <= Len(b) /\ SubSeq(b, 1, Len(a)) = a

\* C12: a call of make_profile keeps every entry of verts, faces, matids
\* and uvs at its index, reports offset = len(verts) at entry, adds only
\* faces whose vertex indices start at that offset and stay below the new
\* len(verts), one material id and one uv entry per face, and leaves the
\* four buffers as they are when the generator has no segment
C12_AppendOnly ==
    [][(pc = "offset" /\ pc' # "offset") =>
          /\ IsPrefix(verts, verts')
          /\ IsPrefix(bufs.faces, bufs'.faces)
          /\ IsPrefix(bufs.matids, bufs'.matids)
          /\ IsPrefix(bufs.uvs, bufs'.uvs)
          /\ out'.offset = Len(verts)
          /\ \A f \in (Len(bufs.faces) + 1)..Len(bufs'.faces) :
                \A k \in 1..4 :
                   /\ bufs'.faces[f][k] >= Len(verts)
                   /\ bufs'.faces[f][k] < Len(verts')
          /\ Len(bufs'.matids) - Len(bufs.matids)
                = Len(bufs'.faces) - Len(bufs.faces)
          /\ Len(bufs'.uvs) - Len(bufs.uvs)
                = Len(bufs'.faces) - Len(bufs.faces)
          /\ (Len(segs) = 0 => verts' = verts /\ bufs' = bufs)]_vars

\* make_profile has added vertices and faces behind the entries of an
\* earlier call, the first new face starting at vertex index offset
C12_Witness ==
    /\ pc = "done"
    /\ out.offset = Len(OldVerts)
    /\ Len(verts) >= Len(OldVerts) + 2 * K
    /\ IsPrefix(OldVerts, verts)
    /\ Len(bufs.faces) > Len(OldBufs.faces)
    /\ bufs.faces[Len(OldBufs.faces) + 1][1] = out.offset

Buffers ==
    [verts |-> verts, faces |-> bufs.faces, matids |-> bufs.matids,
     uvs |-> bufs.uvs]

\* C13: an update calls buildmesh at most once, and only when make_profile
\* has returned, with the buffers make_profile filled; the mesh changes by
\* buildmesh only; when find_in_selection gives no object, as it does while
\* auto_update is False, the update returns: no update_parts, no generator,
\* no make_profile, no buildmesh
C13_OneWriteAfterProfile ==
    [][/\ obj'.writes <= 1
       /\ obj'.writes > obj.writes
            => pc = "done" /\ out.ran /\ ~out.raised /\ obj'.mesh = Buffers
       /\ obj'.mesh # obj.mesh => obj'.writes > obj.writes
       /\ (pc = "idle" /\ find_in_selection(obj', obj'.auto_update) = NoObject)
            => /\ pc' = "idle"
               /\ segs' = segs
               /\ obj'.writes = obj.writes
               /\ obj'.op # "from_spline"
                    => Len(parts') = Len(parts) /\ obj'.pmanips = obj.pmanips
       /\ pc' # "idle" => obj'.auto_update]_vars

\* a mesh was written, then auto_update was set to False and the parts
\* changed without a new generation
C13_Witness ==
    /\ pc = "idle"
    /\ ~obj.auto_update
    /\ obj.op = "a0"
    /\ obj.mesh # NoMesh
    /\ obj.writes = 1
    /\ obj.gen.parts # parts

(***************************************************************************)
(* C15                                                                     *)
(***************************************************************************)
\* C15: from_spline leaves auto_update as it found it, whatever the spline
C15_AutoUpdateRestored ==
    [][(pc = "idle" /\ obj'.op = "from_spline")
          => obj'.auto_update = obj.auto_update]_vars

(***************************************************************************)
(* C16                                                                     *)
(***************************************************************************)
Min(a, b) == IF a < b THEN a ELSE b

\* C16: update_parts leaves n_parts parts, the first min(old length,
\* n_parts) of them the parts there were, in order, the others new; every
\* part has 3 manipulators and the object 2; update_parts and
\* setup_manipulators called again change nothing
C16_UpdateParts ==
    [][(pc = "update" /\ pc' # "update") =>
          /\ Len(parts') = obj.n_parts
          /\ obj'.n_parts = obj.n_parts
          /\ \A i \in 1..Min(Len(parts), obj.n_parts) : parts'[i] = parts[i]
          /\ \A i \in (Len(parts) + 1)..obj.n_parts : parts'[i] = DefaultPart
          /\ Len(obj'.pmanips) = obj.n_parts
          /\ \A i \in 1..obj.n_parts : obj'.pmanips[i] = 3
          /\ obj'.manipulators = 2
          /\ update_parts(parts', obj'.n_parts) = parts'
          /\ update_parts_obj(obj') = obj'
          /\ setup_manipulators(obj') = obj']_vars

\* update_parts has removed parts from a collection of parts that differ:
\* the mesh was generated from more parts, the first of them are the parts
\* kept, with their manipulators
C16_Witness ==
    /\ pc = "offset"
    /\ Len(parts) = obj.n_parts
    /\ Len(parts) >= 2
    /\ obj.gen # NoGen
    /\ Len(obj.gen.parts) > Len(parts)
    /\ parts[1].a0 # parts[2].a0
    /\ parts = SubSeq(obj.gen.parts, 1, Len(parts))
    /\ obj.manipulators = 2
    /\ obj.pmanips = [i \in 1..Len(parts) |-> 3]

====
